---------------------------- MODULE Spec2Model ----------------------------
(*************************************************************************)
(* Model of src/data_extraction/preprocess_gsd_dataset.py: the line loop *)
(* of get_examples_from_dataset, get_word_data, has_chinese_char and     *)
(* _is_chinese_char.                                                     *)
(*                                                                       *)
(* A string is a sequence of code points, so that strip, split, slicing, *)
(* isdigit, int() and ord() are computed on the characters as the Python *)
(* code computes them.  A dict is a record; None is the empty tuple and  *)
(* a reference to a dict d is the one-element tuple <<d>>.               *)
(*************************************************************************)
EXTENDS Integers, Sequences, FiniteSets, TLC

VARIABLES
    input,                 \* f.readlines(): the lines of the dataset file
    pos,                   \* index in input of the line the for loop takes next
    ex,                    \* the open example: None or <<dict>>
    preprocessed_dataset,  \* the accepted examples
    filtered_examples,     \* the number of examples dropped by the filter
    pc,                    \* "loop", "write", "print", "done" or "error"
    exc,                   \* the exception that ended the run ("none" if none)
    outfile,               \* the output file: <<>> not written, <<list>> written
    stdout,                \* the messages printed so far
    cp,                    \* argument of a direct call of _is_chinese_char
    cp_ret,                \* its result: <<>> before the call, <<bool>> after
    rec,                   \* argument of a direct call of has_chinese_char
    rec_ret                \* its result: <<>> before the call, <<bool>> after

vars == <<input, pos, ex, preprocessed_dataset, filtered_examples, pc, exc,
          outfile, stdout, cp, cp_ret, rec, rec_ret>>

loopVars == <<input, pos, ex, preprocessed_dataset, filtered_examples, pc, exc,
              outfile, stdout>>

callVars == <<cp, cp_ret, rec, rec_ret>>

-----------------------------------------------------------------------------
(* Bounds of the model *)

\* longest dataset file, in lines (the end-to-end scenario is added to these)
MaxLines == 5

\* how far on each side of a range bound the code points of SpecCp go
CpWindow == 2

\* longest words list of a record handed directly to has_chinese_char
MaxWords == 2

-----------------------------------------------------------------------------
(* Characters *)

TAB == 9       \* '\t'
NL == 10       \* '\n'
SPACE == 32    \* ' '
HASH == 35     \* '#'
DASH == 45     \* '-'
None == <<>>

\* str.isspace() of one character, as str.strip() uses it
IsSpace(c) == c \in {9, 10, 11, 12, 13, 28, 29, 30, 31, 32, 133, 160}

\* str.isdigit() of one character (the decimal digits of the input alphabet)
isdigit(c) == c \in 48..57

RECURSIVE lstrip(_)
lstrip(s) == IF s # <<>> /\ IsSpace(Head(s)) THEN lstrip(Tail(s)) ELSE s

RECURSIVE rstrip(_)
rstrip(s) ==
    IF s # <<>> /\ IsSpace(s[Len(s)]) THEN rstrip(SubSeq(s, 1, Len(s) - 1)) ELSE s

\* str.strip()
strip(s) == rstrip(lstrip(s))

\* str.split(sep) for a one-character separator: empty fields are kept
RECURSIVE split(_, _)
split(s, sep) ==
    IF \E i \in 1..Len(s) : s[i] = sep
    THEN LET i == CHOOSE k \in 1..Len(s) :
                      s[k] = sep /\ \A j \in 1..(k - 1) : s[j] # sep
         IN  <<SubSeq(s, 1, i - 1)>> \o split(SubSeq(s, i + 1, Len(s)), sep)
    ELSE <<s>>

\* Python's s[a:b] for 0 <= a <= b
slice(s, a, b) == SubSeq(s, a + 1, IF b < Len(s) THEN b ELSE Len(s))

\* c in s
contains(s, c) == \E i \in 1..Len(s) : s[i] = c

\* whether int(s) succeeds: an optional sign and one or more decimal digits
IsIntLiteral(s) ==
    LET t == strip(s)
        d == IF t # <<>> /\ t[1] \in {43, 45} THEN Tail(t) ELSE t
    IN  d # <<>> /\ \A i \in 1..Len(d) : isdigit(d[i])

RECURSIVE DigitsValue(_)
DigitsValue(d) ==
    IF d = <<>> THEN 0
    ELSE 10 * DigitsValue(SubSeq(d, 1, Len(d) - 1)) + (d[Len(d)] - 48)

\* int(s) when it succeeds
int(s) ==
    LET t == strip(s)
    IN  IF t[1] = 45 THEN 0 - DigitsValue(Tail(t))
        ELSE IF t[1] = 43 THEN DigitsValue(Tail(t))
        ELSE DigitsValue(t)

-----------------------------------------------------------------------------
(* The ideographic ranges *)

\* _is_chinese_char with the upper bound of the second range exclusive
_is_chinese_char_open(c) ==
    \/ (c >= 19968 /\ c <= 40959)
    \/ (c >= 13312 /\ c < 19903)
    \/ (c >= 131072 /\ c <= 173791)
    \/ (c >= 173824 /\ c <= 177983)
    \/ (c >= 177984 /\ c <= 178207)
    \/ (c >= 178208 /\ c <= 183983)
    \/ (c >= 63744 /\ c <= 64255)
    \/ (c >= 194560 /\ c <= 195103)

_is_chinese_char(c) ==
    \/ (c >= 19968 /\ c <= 40959)      \* 0x4E00  .. 0x9FFF
    \/ (c >= 13312 /\ c <= 19903)      \* 0x3400  .. 0x4DBF
    \/ (c >= 131072 /\ c <= 173791)    \* 0x20000 .. 0x2A6DF
    \/ (c >= 173824 /\ c <= 177983)    \* 0x2A700 .. 0x2B73F
    \/ (c >= 177984 /\ c <= 178207)    \* 0x2B740 .. 0x2B81F
    \/ (c >= 178208 /\ c <= 183983)    \* 0x2B820 .. 0x2CEAF
    \/ (c >= 63744 /\ c <= 64255)      \* 0xF900  .. 0xFAFF
    \/ (c >= 194560 /\ c <= 195103)    \* 0x2F800 .. 0x2FA1F

\* the inner loop of has_chinese_char: the characters of one word, in order
RECURSIVE WordHasChinese(_)
WordHasChinese(word) ==
    IF word = <<>> THEN FALSE
    ELSE IF _is_chinese_char(Head(word)) THEN TRUE
    ELSE WordHasChinese(Tail(word))

\* the outer loop of has_chinese_char: the words, in order
RECURSIVE WordsHaveChinese(_)
WordsHaveChinese(words) ==
    IF words = <<>> THEN FALSE
    ELSE IF WordHasChinese(Head(words)) THEN TRUE
    ELSE WordsHaveChinese(Tail(words))

\* has_chinese_char with "return False" inside the loop over the words
has_chinese_char_first_word(e) ==
    e.words # <<>> /\ WordHasChinese(e.words[1])

has_chinese_char(e) == WordsHaveChinese(e.words)

-----------------------------------------------------------------------------
(* get_word_data *)

\* get_word_data with the compound test after the first append
get_word_data_late_skip(line, e) ==
    LET fields == split(strip(line), TAB)
    IN  IF Len(fields) # 10 THEN [ex |-> e, exc |-> "ValueError"]
        ELSE IF e = None THEN [ex |-> e, exc |-> "TypeError"]
        ELSE LET e1 == [e[1] EXCEPT !.words = Append(@, fields[2])]
                 e2 == [e1 EXCEPT !.relns = Append(@, fields[8])]
             IN  IF contains(fields[1], DASH) THEN [ex |-> <<e1>>, exc |-> "none"]
                 ELSE IF ~IsIntLiteral(fields[7])
                 THEN [ex |-> <<e2>>, exc |-> "ValueError"]
                 ELSE [ex |-> <<[e2 EXCEPT !.heads = Append(@, int(fields[7]))]>>,
                       exc |-> "none"]

\* get_word_data with the compound test on the word instead of the index
get_word_data_dash_in_word(line, e) ==
    LET fields == split(strip(line), TAB)
    IN  IF Len(fields) # 10 THEN [ex |-> e, exc |-> "ValueError"]
        ELSE IF contains(fields[2], DASH) THEN [ex |-> e, exc |-> "none"]
        ELSE IF e = None THEN [ex |-> e, exc |-> "TypeError"]
        ELSE LET e1 == [e[1] EXCEPT !.words = Append(@, fields[2])]
                 e2 == [e1 EXCEPT !.relns = Append(@, fields[8])]
             IN  IF ~IsIntLiteral(fields[7])
                 THEN [ex |-> <<e2>>, exc |-> "ValueError"]
                 ELSE [ex |-> <<[e2 EXCEPT !.heads = Append(@, int(fields[7]))]>>,
                       exc |-> "none"]

\* get_word_data with the compound test before the unpacking
get_word_data_skip_first(line, e) ==
    LET fields == split(strip(line), TAB)
    IN  IF contains(fields[1], DASH) THEN [ex |-> e, exc |-> "none"]
        ELSE IF Len(fields) # 10 THEN [ex |-> e, exc |-> "ValueError"]
        ELSE IF e = None THEN [ex |-> e, exc |-> "TypeError"]
        ELSE LET e1 == [e[1] EXCEPT !.words = Append(@, fields[2])]
                 e2 == [e1 EXCEPT !.relns = Append(@, fields[8])]
             IN  IF ~IsIntLiteral(fields[7])
                 THEN [ex |-> <<e2>>, exc |-> "ValueError"]
                 ELSE [ex |-> <<[e2 EXCEPT !.heads = Append(@, int(fields[7]))]>>,
                       exc |-> "none"]
\* get_word_data with the word taken from field 2 (the lemma) instead of 1
get_word_data_lemma(line, e) ==
    LET fields == split(strip(line), TAB)
    IN  IF Len(fields) # 10 THEN [ex |-> e, exc |-> "ValueError"]
        ELSE IF contains(fields[1], DASH) THEN [ex |-> e, exc |-> "none"]
        ELSE IF e = None THEN [ex |-> e, exc |-> "TypeError"]
        ELSE LET e1 == [e[1] EXCEPT !.words = Append(@, fields[3])]
                 e2 == [e1 EXCEPT !.relns = Append(@, fields[8])]
             IN  IF ~IsIntLiteral(fields[7])
                 THEN [ex |-> <<e2>>, exc |-> "ValueError"]
                 ELSE [ex |-> <<[e2 EXCEPT !.heads = Append(@, int(fields[7]))]>>,
                       exc |-> "none"]

\* get_word_data with int(head) evaluated before the appends
get_word_data_head_first(line, e) ==
    LET fields == split(strip(line), TAB)
    IN  IF Len(fields) # 10 THEN [ex |-> e, exc |-> "ValueError"]
        ELSE IF contains(fields[1], DASH) THEN [ex |-> e, exc |-> "none"]
        ELSE IF e = None THEN [ex |-> e, exc |-> "TypeError"]
        ELSE IF ~IsIntLiteral(fields[7]) THEN [ex |-> e, exc |-> "ValueError"]
        ELSE [ex |-> <<[e[1] EXCEPT !.words = Append(@, fields[2]),
                                    !.relns = Append(@, fields[8]),
                                    !.heads = Append(@, int(fields[7]))]>>,
              exc |-> "none"]

\* The result of get_word_data(line, e): the open example as the call leaves
\* it (the dict is changed in place) and the exception it raised, if any.
\*   ValueError: the 10-name unpacking of the split, or int(head)
\*   TypeError:  ex['words'] when ex is None
get_word_data(line, e) ==
    LET fields == split(strip(line), TAB)
    IN  IF Len(fields) # 10 THEN [ex |-> e, exc |-> "ValueError"]
        ELSE LET word_id == fields[1]
                 word == fields[2]
                 head == fields[7]
                 reln == fields[8]
             IN  IF contains(word_id, DASH) THEN [ex |-> e, exc |-> "none"]
                 ELSE IF e = None THEN [ex |-> e, exc |-> "TypeError"]
                 ELSE LET e1 == [e[1] EXCEPT !.words = Append(@, word)]
                          e2 == [e1 EXCEPT !.relns = Append(@, reln)]
                      IN  IF ~IsIntLiteral(head)
                          THEN [ex |-> <<e2>>, exc |-> "ValueError"]
                          ELSE [ex |-> <<[e2 EXCEPT !.heads = Append(@, int(head))]>>,
                                exc |-> "none"]

-----------------------------------------------------------------------------
(* The body of the for loop of get_examples_from_dataset, branch by branch.  *)
(* st is the loop's state: [ex, preprocessed_dataset, filtered_examples,     *)
(* exc].                                                                     *)

\* OnBlank with the slot reset only when the example is accepted
OnBlank_no_reset(st) ==
    IF st.ex # None
    THEN IF ~has_chinese_char(st.ex[1])
         THEN [st EXCEPT !.preprocessed_dataset = Append(@, st.ex[1]),
                         !.ex = None]
         ELSE [st EXCEPT !.filtered_examples = @ + 1]
    ELSE st

\* OnBlank with the two tests merged: "if ex and not has_chinese_char(ex)"
OnBlank_merged_test(st) ==
    IF st.ex # None /\ ~has_chinese_char(st.ex[1])
    THEN [st EXCEPT !.preprocessed_dataset = Append(@, st.ex[1]),
                    !.ex = None]
    ELSE [st EXCEPT !.filtered_examples = @ + 1,
                    !.ex = None]
\* OnBlank with the slot left on the example that was appended
OnBlank_keep_alias(st) ==
    IF st.ex # None
    THEN IF ~has_chinese_char(st.ex[1])
         THEN [st EXCEPT !.preprocessed_dataset = Append(@, st.ex[1])]
         ELSE [st EXCEPT !.filtered_examples = @ + 1,
                         !.ex = None]
    ELSE st

\* line == '\n'
OnBlank(st) ==
    IF st.ex # None
    THEN IF ~has_chinese_char(st.ex[1])
         THEN [st EXCEPT !.preprocessed_dataset = Append(@, st.ex[1]),
                         !.ex = None]
         ELSE [st EXCEPT !.filtered_examples = @ + 1,
                         !.ex = None]
    ELSE st
\* OnComment that opens a record only when none is open
OnComment_keep_open(st, line) ==
    IF slice(line, 2, 6) # <<116, 101, 120, 116>> /\ st.ex = None
    THEN [st EXCEPT !.ex = <<[id |-> LET f == split(strip(line), SPACE)
                                     IN  f[Len(f)],
                              words |-> <<>>,
                              relns |-> <<>>,
                              heads |-> <<>>]>>]
    ELSE st

\* OnComment with the tag read one character early: line[1:5]
OnComment_tag_offset(st, line) ==
    IF slice(line, 1, 5) # <<116, 101, 120, 116>>
    THEN [st EXCEPT !.ex = <<[id |-> LET f == split(strip(line), SPACE)
                                     IN  f[Len(f)],
                              words |-> <<>>,
                              relns |-> <<>>,
                              heads |-> <<>>]>>]
    ELSE st

\* line[0] == "#"
OnComment(st, line) ==
    IF slice(line, 2, 6) # <<116, 101, 120, 116>>     \* "text"
    THEN [st EXCEPT !.ex = <<[id |-> LET f == split(strip(line), SPACE)
                                     IN  f[Len(f)],
                              words |-> <<>>,
                              relns |-> <<>>,
                              heads |-> <<>>]>>]
    ELSE st

\* line[0].isdigit()
OnToken(st, line) ==
    LET r == get_word_data(line, st.ex)
    IN  [st EXCEPT !.ex = r.ex, !.exc = r.exc]

IsBlankLine(line) == line = <<NL>>
IsCommentLine(line) == ~IsBlankLine(line) /\ line[1] = HASH
IsTokenLine(line) == ~IsBlankLine(line) /\ line[1] # HASH /\ isdigit(line[1])
IsOtherLine(line) == ~IsBlankLine(line) /\ line[1] # HASH /\ ~isdigit(line[1])

\* one iteration of the loop: the if / elif / elif chain
LoopBody(st, line) ==
    IF IsBlankLine(line) THEN OnBlank(st)
    ELSE IF line[1] = HASH THEN OnComment(st, line)
    ELSE IF isdigit(line[1]) THEN OnToken(st, line)
    ELSE st

\* the loop's state before the first line
LoopStart ==
    [ex |-> None, preprocessed_dataset |-> <<>>, filtered_examples |-> 0,
     exc |-> "none"]

\* the loop over lines[i..]: an exception ends it
RECURSIVE RunFrom(_, _, _)
RunFrom(st, lines, i) ==
    IF i > Len(lines) \/ st.exc # "none" THEN st
    ELSE RunFrom(LoopBody(st, lines[i]), lines, i + 1)

Run(lines) == RunFrom(LoopStart, lines, 1)

-----------------------------------------------------------------------------
(* The input files *)

\* the fields of a line joined by tabs, with the line terminator
RECURSIVE JoinTab(_)
JoinTab(fields) ==
    IF Len(fields) = 1 THEN fields[1] \o <<NL>>
    ELSE fields[1] \o <<TAB>> \o JoinTab(Tail(fields))

\* a 10-field token line: index, form, 4 unused, head, relation, 2 unused
Token(idx, form, head, reln) ==
    JoinTab(<<idx, form, <<95>>, <<95>>, <<95>>, <<95>>, head, reln, <<95>>, <<95>>>>)

W_Hola == <<72, 111, 108, 97>>
W_mundo == <<109, 117, 110, 100, 111>>
W_nihao == <<20320, 22909>>                  \* U+4F60 U+597D
W_del == <<100, 101, 108>>
R_root == <<114, 111, 111, 116>>
R_obj == <<111, 98, 106>>
Id_s1 == <<115, 49>>
Id_s2 == <<115, 50>>

L_blank == <<NL>>
\* "# sent_id = s1", "# sent_id = s2"
L_id1 == <<35, 32, 115, 101, 110, 116, 95, 105, 100, 32, 61, 32>> \o Id_s1 \o <<NL>>
L_id2 == <<35, 32, 115, 101, 110, 116, 95, 105, 100, 32, 61, 32>> \o Id_s2 \o <<NL>>
\* "# text = Hola"
L_text == <<35, 32, 116, 101, 120, 116, 32, 61, 32>> \o W_Hola \o <<NL>>
\* token 1, head 2: the head points past the only word of its record
L_tok == Token(<<49>>, W_Hola, <<50>>, R_obj)
\* a token whose word is ideographic
L_cjk == Token(<<49>>, W_nihao, <<48>>, R_root)
\* the compound-span line "1-2 del", head and relation "_" as in the treebank
L_comp == Token(<<49, DASH, 50>>, W_del, <<95>>, <<95>>)
\* a token line of 3 fields, and a compound-span line of 2
L_short == JoinTab(<<<<49>>, W_Hola, <<95>>>>)
L_compshort == JoinTab(<<<<49, DASH, 50>>, W_del>>)
\* a 10-field token line whose head is "_"
L_badhead == Token(<<49>>, W_Hola, <<95>>, R_root)
\* a whitespace-only line
L_other == <<SPACE, NL>>

LineSet ==
    {L_blank, L_id1, L_id2, L_text, L_tok, L_cjk, L_comp, L_short,
     L_compshort, L_badhead, L_other}

\* the end-to-end scenario: s1 = Hola mundo, s2 = one ideographic word, and
\* no blank line after s2
Scenario ==
    << L_id1,
       <<35, 32, 116, 101, 120, 116, 32, 61, 32>> \o W_Hola \o <<SPACE>> \o W_mundo \o <<NL>>,
       Token(<<49>>, W_Hola, <<48>>, R_root),
       Token(<<50>>, W_mundo, <<49>>, R_obj),
       L_blank,
       L_id2,
       <<35, 32, 116, 101, 120, 116, 32, 61, 32>> \o W_nihao \o <<NL>>,
       Token(<<49>>, W_nihao, <<48>>, R_root) >>

\* the files tried: every file of at most MaxLines lines of LineSet, and the
\* end-to-end scenario
IsFile(f) ==
    \/ \E k \in 0..MaxLines : f \in [1..k -> LineSet]
    \/ f = Scenario

-----------------------------------------------------------------------------
(* get_examples_from_dataset *)

Init ==
    /\ IsFile(input)
    /\ pos = 1
    /\ ex = None
    /\ preprocessed_dataset = <<>>
    /\ filtered_examples = 0
    /\ pc = "loop"
    /\ exc = "none"
    /\ outfile = <<>>
    /\ stdout = <<>>
    /\ cp = 0
    /\ cp_ret = <<>>
    /\ rec = None
    /\ rec_ret = <<>>

\* the loop's state, as LoopBody takes it
Now ==
    [ex |-> ex, preprocessed_dataset |-> preprocessed_dataset,
     filtered_examples |-> filtered_examples, exc |-> exc]

\* Iterate with the output file rewritten after every line
Iterate_flush(st) ==
    /\ ex' = st.ex
    /\ preprocessed_dataset' = st.preprocessed_dataset
    /\ filtered_examples' = st.filtered_examples
    /\ exc' = st.exc
    /\ pc' = IF st.exc # "none" THEN "error" ELSE "loop"
    /\ pos' = IF st.exc # "none" THEN pos ELSE pos + 1
    /\ outfile' = <<st.preprocessed_dataset>>
    /\ UNCHANGED <<input, stdout, callVars>>
\* the loop's state after an iteration; an exception leaves the loop and the
\* function, and pos stays on the line that raised
Iterate(st) ==
    /\ ex' = st.ex
    /\ preprocessed_dataset' = st.preprocessed_dataset
    /\ filtered_examples' = st.filtered_examples
    /\ exc' = st.exc
    /\ pc' = IF st.exc # "none" THEN "error" ELSE "loop"
    /\ pos' = IF st.exc # "none" THEN pos ELSE pos + 1
    /\ UNCHANGED <<input, outfile, stdout, callVars>>

BlankLine ==
    /\ pc = "loop" /\ pos <= Len(input)
    /\ IsBlankLine(input[pos])
    /\ Iterate(OnBlank(Now))

CommentLine ==
    /\ pc = "loop" /\ pos <= Len(input)
    /\ IsCommentLine(input[pos])
    /\ Iterate(OnComment(Now, input[pos]))

TokenLine ==
    /\ pc = "loop" /\ pos <= Len(input)
    /\ IsTokenLine(input[pos])
    /\ Iterate(OnToken(Now, input[pos]))

OtherLine ==
    /\ pc = "loop" /\ pos <= Len(input)
    /\ IsOtherLine(input[pos])
    /\ Iterate(Now)
\* ReportFiltered without the "if filtered_examples > 0" test
ReportFiltered_always ==
    /\ pc = "loop" /\ pos > Len(input)
    /\ stdout' = Append(stdout, <<"filtered", filtered_examples>>)
    /\ pc' = "write"
    /\ UNCHANGED <<input, pos, ex, preprocessed_dataset, filtered_examples, exc,
                   outfile, callVars>>

\* after the loop: the filtered-count message, if any example was filtered
ReportFiltered ==
    /\ pc = "loop" /\ pos > Len(input)
    /\ stdout' = IF filtered_examples > 0
                 THEN Append(stdout, <<"filtered", filtered_examples>>)
                 ELSE stdout
    /\ pc' = "write"
    /\ UNCHANGED <<input, pos, ex, preprocessed_dataset, filtered_examples, exc,
                   outfile, callVars>>

\* json.dump(preprocessed_dataset, f)
WriteOutput ==
    /\ pc = "write"
    /\ outfile' = <<preprocessed_dataset>>
    /\ pc' = "print"
    /\ UNCHANGED <<input, pos, ex, preprocessed_dataset, filtered_examples, exc,
                   stdout, callVars>>

\* print('Done!')
PrintDone ==
    /\ pc = "print"
    /\ stdout' = Append(stdout, <<"Done!">>)
    /\ pc' = "done"
    /\ UNCHANGED <<input, pos, ex, preprocessed_dataset, filtered_examples, exc,
                   outfile, callVars>>

Next ==
    \/ BlankLine
    \/ CommentLine
    \/ TokenLine
    \/ OtherLine
    \/ ReportFiltered
    \/ WriteOutput
    \/ PrintDone

Spec == Init /\ [][Next]_vars

-----------------------------------------------------------------------------
(* Direct calls of the two classification functions *)

\* the range table of the specification, inclusive bounds
RangeTable ==
    << <<19968, 40959>>,      \* [0x4E00,  0x9FFF]
       <<13312, 19903>>,      \* [0x3400,  0x4DBF]
       <<131072, 173791>>,    \* [0x20000, 0x2A6DF]
       <<173824, 177983>>,    \* [0x2A700, 0x2B73F]
       <<177984, 178207>>,    \* [0x2B740, 0x2B81F]
       <<178208, 183983>>,    \* [0x2B820, 0x2CEAF]
       <<63744, 64255>>,      \* [0xF900,  0xFAFF]
       <<194560, 195103>>  >> \* [0x2F800, 0x2FA1F]

InRangeTable(c) ==
    \E i \in DOMAIN RangeTable : RangeTable[i][1] <= c /\ c <= RangeTable[i][2]

\* some character of some word is in the range table
AnyIdeographic(words) ==
    \E i \in DOMAIN words : \E j \in DOMAIN words[i] : InRangeTable(words[i][j])

\* the code points tried: around every bound of the table, and the ends of
\* the code space, ASCII, kana and hangul
CodePoints ==
    UNION {(RangeTable[i][k] - CpWindow)..(RangeTable[i][k] + CpWindow) :
               i \in DOMAIN RangeTable, k \in 1..2}
    \cup {0, 65, 12354, 12450, 44032, 1114111}

\* the words tried: "H", "a" + U+4E16, katakana U+30A2
FilterWords == {<<72>>, <<97, 19990>>, <<12450>>}

\* the records tried: every words list, under two ids and every aligned
\* heads and relns
Records ==
    UNION {{[id |-> i, words |-> w, relns |-> r, heads |-> h] :
                i \in {Id_s1, Id_s2},
                w \in [1..k -> FilterWords],
                r \in [1..k -> {R_root, R_obj}],
                h \in [1..k -> {0, 1}]} : k \in 0..MaxWords}

\* no file is being processed
LoopIdle ==
    /\ input = <<>>
    /\ pos = 1
    /\ ex = None
    /\ preprocessed_dataset = <<>>
    /\ filtered_examples = 0
    /\ pc = "call"
    /\ exc = "none"
    /\ outfile = <<>>
    /\ stdout = <<>>

InitCp ==
    /\ LoopIdle
    /\ cp \in CodePoints
    /\ cp_ret = <<>>
    /\ rec = None
    /\ rec_ret = <<>>

\* _is_chinese_char(cp)
CallIsChineseChar ==
    /\ pc = "call"
    /\ cp_ret = <<>>
    /\ cp_ret' = <<_is_chinese_char(cp)>>
    /\ UNCHANGED <<loopVars, cp, rec, rec_ret>>

SpecCp == InitCp /\ [][CallIsChineseChar]_vars

InitFilter ==
    /\ LoopIdle
    /\ cp = 0
    /\ cp_ret = <<>>
    /\ rec \in Records
    /\ rec_ret = <<>>

\* has_chinese_char(rec): the dict is only read
CallHasChineseChar ==
    /\ pc = "call"
    /\ rec_ret = <<>>
    /\ rec_ret' = <<has_chinese_char(rec)>>
    /\ UNCHANGED <<loopVars, cp, cp_ret, rec>>

SpecFilter == InitFilter /\ [][CallHasChineseChar]_vars

-----------------------------------------------------------------------------
(* Vocabulary of the properties *)

\* the lines the loop has fully processed
Processed == SubSeq(input, 1, pos - 1)

\* the loop is about to take a line
AtLine == pc = "loop" /\ pos <= Len(input)

\* the tab-separated fields of a line, as get_word_data splits it
Fields(line) == split(strip(line), TAB)

IsSentIdLine(line) ==
    IsCommentLine(line) /\ slice(line, 2, 6) # <<116, 101, 120, 116>>

IsTextLine(line) ==
    IsCommentLine(line) /\ slice(line, 2, 6) = <<116, 101, 120, 116>>

IsCompoundField(f) == contains(f, DASH)

\* new is old with exactly one entry added at the end
OneAppended(old, new) ==
    Len(new) = Len(old) + 1 /\ SubSeq(new, 1, Len(old)) = old

Aligned(r) == Len(r.words) = Len(r.heads) /\ Len(r.heads) = Len(r.relns)

\* a run of blank lines replaced by its first line
RECURSIVE CollapseBlanks(_)
CollapseBlanks(lines) ==
    IF Len(lines) < 2 THEN lines
    ELSE IF IsBlankLine(lines[1]) /\ IsBlankLine(lines[2])
         THEN CollapseBlanks(Tail(lines))
         ELSE <<lines[1]>> \o CollapseBlanks(Tail(lines))

\* A sentence block: the sentence-id line, the text line, then one or more
\* 10-field token lines, each a compound-span line or with an integer head.
IsBlock(b) ==
    /\ Len(b) >= 3
    /\ IsSentIdLine(b[1])
    /\ IsTextLine(b[2])
    /\ \A k \in 3..Len(b) :
           /\ IsTokenLine(b[k])
           /\ Len(Fields(b[k])) = 10
           /\ IsCompoundField(Fields(b[k])[1]) \/ IsIntLiteral(Fields(b[k])[7])

\* the blocks of a file: what lies between its blank lines
Blocks(lines) == split(lines, L_blank)

\* blocks separated by one blank line, the last one ending at end of stream
WellFormedBlocks(lines) ==
    lines # <<>> /\ \A k \in DOMAIN Blocks(lines) : IsBlock(Blocks(lines)[k])

\* the record of a block: its id and the fields of its non-compound tokens
BlockRecord(b) ==
    LET toks == SelectSeq(SubSeq(b, 3, Len(b)),
                          LAMBDA l : ~IsCompoundField(Fields(l)[1]))
        idf == split(strip(b[1]), SPACE)
    IN  [id |-> idf[Len(idf)],
         words |-> [k \in 1..Len(toks) |-> Fields(toks[k])[2]],
         relns |-> [k \in 1..Len(toks) |-> Fields(toks[k])[8]],
         heads |-> [k \in 1..Len(toks) |-> int(Fields(toks[k])[7])]]

BlockRecords(lines) ==
    [k \in DOMAIN Blocks(lines) |-> BlockRecord(Blocks(lines)[k])]

\* the sentences without an ideographic character, in input order
ExpectedOutput(lines) ==
    SelectSeq(BlockRecords(lines), LAMBDA r : ~AnyIdeographic(r.words))

\* the number of sentences with one
ExpectedFiltered(lines) ==
    Cardinality({k \in DOMAIN BlockRecords(lines) :
                     AnyIdeographic(BlockRecords(lines)[k].words)})

\* the record s1 of the end-to-end scenario
ScenarioS1 ==
    [id |-> Id_s1, words |-> <<W_Hola, W_mundo>>, heads |-> <<0, 1>>,
     relns |-> <<R_root, R_obj>>]

-----------------------------------------------------------------------------
(* C1..C10 *)

\* C1: in every reachable state of get_examples_from_dataset, every record
\* appended to the output has words, heads and relns of the same length,
\* whatever the input lines (compound-span lines and runs that abort later
\* included).
C1_EmittedRecordsAligned ==
    \A i \in DOMAIN preprocessed_dataset : Aligned(preprocessed_dataset[i])

\* a run that accepted a record built from a compound-span line and its
\* sub-word line, and aborted afterwards
C1_Witness ==
    /\ pc = "error"
    /\ preprocessed_dataset # <<>>
    /\ Len(preprocessed_dataset[1].words) = 1
    /\ \E k \in 1..(pos - 1) : input[k] = L_comp

\* C2 (as claimed): a record still open when the stream is exhausted is
\* finalized exactly as on a blank line, so a completed run has the output
\* and the filtered count of the same file with a blank line added at its end.
C2_OpenRecordFinalizedAtEnd ==
    pc = "done" =>
        LET r == Run(Append(input, L_blank))
        IN  /\ outfile = <<r.preprocessed_dataset>>
            /\ filtered_examples = r.filtered_examples

\* C3 (as claimed): end to end, for sentence blocks separated by one blank
\* line with the last block ending at end of stream, the written output is
\* the input-order sequence of the sentences without an ideographic
\* character and the filtered count is the number of the others; for the
\* scenario the output is the single record s1 and the filtered count is 1.
C3_EndToEnd ==
    /\ (pc = "done" /\ WellFormedBlocks(input)) =>
           /\ outfile = <<ExpectedOutput(input)>>
           /\ filtered_examples = ExpectedFiltered(input)
    /\ (pc = "done" /\ input = Scenario) =>
           /\ outfile = << <<ScenarioS1>> >>
           /\ filtered_examples = 1
           /\ stdout = << <<"filtered", 1>>, <<"Done!">> >>

\* C4: a blank line processed while a record is open either appends the
\* record to the end of the output and leaves the filtered count (no word
\* has an ideographic character), or adds exactly 1 to the filtered count
\* and leaves the output (some word has one); the open-record slot becomes
\* none in both cases.
C4_BlankLineFinalizes ==
    [][ (AtLine /\ IsBlankLine(input[pos]) /\ ex # None) =>
            /\ ex' = None
            /\ pc' = "loop" /\ pos' = pos + 1
            /\ IF ~AnyIdeographic(ex[1].words)
               THEN /\ preprocessed_dataset' = Append(preprocessed_dataset, ex[1])
                    /\ filtered_examples' = filtered_examples
               ELSE /\ filtered_examples' = filtered_examples + 1
                    /\ preprocessed_dataset' = preprocessed_dataset ]_vars

\* a blank line has just closed a record, one record was accepted and one
\* was filtered
C4_Witness ==
    /\ pos > 1 /\ IsBlankLine(input[pos - 1])
    /\ ex = None
    /\ Len(preprocessed_dataset) = 1
    /\ filtered_examples = 1
    /\ Run(SubSeq(input, 1, pos - 2)).ex # None

\* C5: a blank line processed while no record is open changes neither the
\* output, the filtered count nor the open-record slot; so the output and
\* the count are those of the same lines with every run of blank lines
\* reduced to one blank line, and a blank line alone produces no record.
C5_BlankLineNoRecordNoOp ==
    /\ [][ (AtLine /\ IsBlankLine(input[pos]) /\ ex = None) =>
               /\ UNCHANGED <<ex, preprocessed_dataset, filtered_examples>>
               /\ pc' = "loop" /\ pos' = pos + 1 ]_vars
    /\ [](exc = "none" =>
              LET r == Run(CollapseBlanks(Processed))
              IN  /\ preprocessed_dataset = r.preprocessed_dataset
                  /\ filtered_examples = r.filtered_examples
                  /\ ex = r.ex)

\* two sentences separated by two blank lines, both accepted
C5_Witness ==
    /\ pc = "done"
    /\ Len(preprocessed_dataset) = 2
    /\ \E k \in 2..(Len(input) - 2) :
           /\ IsBlankLine(input[k]) /\ IsBlankLine(input[k + 1])
           /\ IsSentIdLine(input[k - 1]) /\ IsSentIdLine(input[k + 2])

\* C6 (amended): with a record open, a 10-field token line whose index
\* contains '-' leaves the record unchanged, and a 10-field token line whose
\* index has no '-' and whose head is an integer adds exactly one entry at
\* the end of each of words, heads and relns.
C6_CompoundSkippedOthersAppended ==
    [][ (AtLine /\ IsTokenLine(input[pos]) /\ Len(Fields(input[pos])) = 10
               /\ ex # None) =>
            IF IsCompoundField(Fields(input[pos])[1])
            THEN ex' = ex /\ pc' = "loop"
            ELSE IsIntLiteral(Fields(input[pos])[7]) =>
                     /\ ex' # None /\ pc' = "loop"
                     /\ ex'[1].id = ex[1].id
                     /\ OneAppended(ex[1].words, ex'[1].words)
                     /\ OneAppended(ex[1].heads, ex'[1].heads)
                     /\ OneAppended(ex[1].relns, ex'[1].relns) ]_vars

\* C6 (as claimed): every 10-field token line whose index has no '-' adds
\* exactly one entry at the end of each of words, heads and relns.
C6_AsClaimed ==
    [][ (AtLine /\ IsTokenLine(input[pos]) /\ Len(Fields(input[pos])) = 10
               /\ ex # None) =>
            IF IsCompoundField(Fields(input[pos])[1])
            THEN ex' = ex
            ELSE /\ ex' # None
                 /\ OneAppended(ex[1].words, ex'[1].words)
                 /\ OneAppended(ex[1].heads, ex'[1].heads)
                 /\ OneAppended(ex[1].relns, ex'[1].relns) ]_vars

\* a compound-span line and then its sub-word line were processed: the open
\* record holds the sub-word only
C6_Witness ==
    /\ pc = "loop" /\ pos > 2
    /\ input[pos - 2] = L_comp /\ input[pos - 1] = L_tok
    /\ ex # None
    /\ ex[1].words = <<W_Hola>> /\ ex[1].heads = <<2>> /\ ex[1].relns = <<R_obj>>

\* C7: a digit-initial line that does not split into exactly 10 fields
\* (a compound-span line included) aborts the run at that line: the line
\* changes nothing, the run is in the error state, and no step follows.
C7_WrongFieldCountAborts ==
    /\ [][ (AtLine /\ IsTokenLine(input[pos]) /\ Len(Fields(input[pos])) # 10) =>
               /\ pc' = "error" /\ exc' = "ValueError"
               /\ UNCHANGED <<input, pos, ex, preprocessed_dataset,
                              filtered_examples, outfile, stdout>> ]_vars
    /\ [][ pc = "error" => UNCHANGED vars ]_vars

\* the run stopped on a compound-span line of 2 fields, with lines left
C7_Witness ==
    /\ pc = "error" /\ exc = "ValueError"
    /\ input[pos] = L_compshort
    /\ pos < Len(input)
    /\ ex # None

\* C8: the output file is written only after every line was processed
\* without error, and then holds the whole accepted sequence; a run that
\* aborted wrote nothing, a run that completed wrote it.
C8_WrittenOnlyAfterWholeStream ==
    /\ outfile # <<>> =>
           /\ pos > Len(input) /\ exc = "none" /\ pc \in {"print", "done"}
           /\ outfile = <<preprocessed_dataset>>
           /\ outfile = <<Run(input).preprocessed_dataset>>
    /\ pc = "error" => outfile = <<>>
    /\ pc = "done" => outfile # <<>>

\* a run that aborted after accepting a record: nothing is written
C8_Witness ==
    /\ pc = "error"
    /\ preprocessed_dataset # <<>>
    /\ outfile = <<>>

\* C9: has_chinese_char(record) is true exactly when some character of some
\* string of record.words is in the ideographic ranges; records with the
\* same words are classified the same whatever their id, heads and relns;
\* the record is not modified.
C9_FilterDependsOnWordsOnly ==
    /\ [](rec_ret # <<>> =>
              /\ rec_ret[1] = AnyIdeographic(rec.words)
              /\ \A r \in Records :
                     r.words = rec.words => has_chinese_char(r) = rec_ret[1])
    /\ [][rec' = rec]_vars

\* a record classified true on the second character of its second word
C9_Witness ==
    /\ rec_ret = <<TRUE>>
    /\ Len(rec.words) = 2
    /\ ~AnyIdeographic(<<rec.words[1]>>)
    /\ rec.words[2] = <<97, 19990>>

\* C10: _is_chinese_char(cp) is true exactly for the code points of the
\* eight inclusive ranges of the range table: both bounds of each range
\* are in, the code points next to them outside the table are out
\* (0x4DBF is ideographic, 0x4DC0 is not).
C10_RangesInclusive ==
    cp_ret # <<>> =>
        /\ cp_ret[1] = InRangeTable(cp)
        /\ cp = 19903 => cp_ret[1] = TRUE
        /\ cp = 19904 => cp_ret[1] = FALSE

\* 0x4DBF was classified ideographic
C10_Witness ==
    cp = 19903 /\ cp_ret = <<TRUE>>

-----------------------------------------------------------------------------
(* C11..C18 *)

IsPrefix(a, b) == Len(a) <= Len(b) /\ SubSeq(b, 1, Len(a)) = a

\* C11: the output is append-only and in input order: every step leaves the
\* previous output as a prefix of the new one, adds at most the record that
\* was open, at the end, and the record added is no longer in the
\* open-record slot, so no later line changes it.
C11_OutputAppendOnly ==
    [][ /\ IsPrefix(preprocessed_dataset, preprocessed_dataset')
        /\ preprocessed_dataset' # preprocessed_dataset =>
               /\ ex # None
               /\ preprocessed_dataset' = Append(preprocessed_dataset, ex[1])
               /\ ex' = None ]_vars

\* two records were accepted, in the order of their sentences, and a third
\* sentence was opened after them
C11_Witness ==
    /\ Len(preprocessed_dataset) = 2
    /\ preprocessed_dataset[1].id = Id_s2
    /\ preprocessed_dataset[2].id = Id_s1
    /\ ex # None

\* the filtered-count message, as printed for a count of n
FilteredMessage(n) == <<"filtered", n>>

\* the messages of a completed run, in order
ExpectedMessages ==
    (IF filtered_examples > 0 THEN <<FilteredMessage(filtered_examples)>> ELSE <<>>)
        \o << <<"Done!">> >>

\* C12: once the stream is consumed without error, the run goes on to its
\* end; the filtered-count message is printed exactly when the count is not
\* zero, and the completion message is always printed, after the output was
\* written.
C12_Messages ==
    /\ pc = "done" => stdout = ExpectedMessages /\ outfile # <<>>
    /\ (\E i \in DOMAIN stdout : stdout[i] = <<"Done!">>) => outfile # <<>>
    /\ (\E i \in DOMAIN stdout : stdout[i][1] = "filtered") <=>
           (filtered_examples > 0 /\ pc \in {"write", "print", "done"})
    /\ ((pc = "loop" /\ pos > Len(input)) \/ pc \in {"write", "print"}) =>
           ENABLED Next

\* a completed run that filtered one example and accepted another
C12_Witness ==
    /\ pc = "done"
    /\ filtered_examples = 1
    /\ Len(outfile[1]) = 1
    /\ stdout = <<FilteredMessage(1), <<"Done!">>>>

\* C13 (as claimed): every token line processed while no record is open,
\* compound-span lines included, aborts the run; none is silently skipped.
C13_OrphanTokenLineAborts ==
    [][ (AtLine /\ IsTokenLine(input[pos]) /\ ex = None) =>
            /\ pc' = "error"
            /\ UNCHANGED <<pos, ex, preprocessed_dataset, filtered_examples,
                           outfile>> ]_vars

\* the record a sentence-identifier line opens
NewRecord(line) ==
    LET f == split(strip(line), SPACE)
    IN  [id |-> f[Len(f)], words |-> <<>>, relns |-> <<>>, heads |-> <<>>]

\* C14 (amended): a new record is created by every sentence-identifier line
\* and by no other line.  With no record open it opens one; with a record
\* open it replaces that record, which is not handed to the filter: the
\* output and the filtered count are unchanged.
C14_NewRecordOnEverySentIdLine ==
    [][ /\ (AtLine /\ IsSentIdLine(input[pos])) =>
               /\ ex' = <<NewRecord(input[pos])>>
               /\ pc' = "loop" /\ pos' = pos + 1
               /\ UNCHANGED <<preprocessed_dataset, filtered_examples>>
        /\ (ex' # None /\ ex' # ex /\ ex'[1].words = <<>>) =>
               (AtLine /\ IsSentIdLine(input[pos])) ]_vars

\* C14 (as claimed): a new record is created only when no record is open.
C14_AsClaimed ==
    [][ (AtLine /\ IsSentIdLine(input[pos])) => ex = None ]_vars

\* a record holding a word was replaced by the record of the next
\* sentence-identifier line: nothing was accepted or filtered
C14_Witness ==
    /\ pc = "loop" /\ pos = 4
    /\ input[1] = L_id1 /\ input[2] = L_tok /\ input[3] = L_id2
    /\ ex = <<NewRecord(L_id2)>>
    /\ preprocessed_dataset = <<>>
    /\ filtered_examples = 0

\* the index of the last sentence-identifier line of lines (0 if none)
LastSentId(lines) ==
    LET S == {k \in DOMAIN lines : IsSentIdLine(lines[k])}
    IN  IF S = {} THEN 0 ELSE CHOOSE k \in S : \A j \in S : j <= k

\* a record is open after lines: a sentence-identifier line with no blank
\* line after it
OpenAfter(lines) ==
    /\ LastSentId(lines) > 0
    /\ \A k \in (LastSentId(lines) + 1)..Len(lines) : ~IsBlankLine(lines[k])

\* the record open after lines: the id of the last sentence-identifier line
\* and fields 1, 6 (as an integer) and 7 of the non-compound token lines
\* after it, in input order
OpenRecordOf(lines) ==
    LET toks == SelectSeq(SubSeq(lines, LastSentId(lines) + 1, Len(lines)),
                          LAMBDA l : IsTokenLine(l) /\ ~IsCompoundField(Fields(l)[1]))
    IN  [id |-> NewRecord(lines[LastSentId(lines)]).id,
         words |-> [k \in 1..Len(toks) |-> Fields(toks[k])[2]],
         relns |-> [k \in 1..Len(toks) |-> Fields(toks[k])[8]],
         heads |-> [k \in 1..Len(toks) |-> int(Fields(toks[k])[7])]]

\* C15: the words, heads and relns of the open record, and of every record
\* a blank line finalizes, are field 1, the integer value of field 6 and
\* field 7 of the non-compound token lines since the sentence-identifier
\* line that opened it, in input order; heads are stored as parsed.
C15_RecordIsItsTokenLines ==
    /\ (ex # None /\ pc # "error") => ex[1] = OpenRecordOf(Processed)
    /\ (/\ pc # "error" /\ pos > 1
        /\ IsBlankLine(input[pos - 1])
        /\ OpenAfter(SubSeq(input, 1, pos - 2))
        /\ ~AnyIdeographic(OpenRecordOf(SubSeq(input, 1, pos - 2)).words)) =>
           /\ preprocessed_dataset # <<>>
           /\ preprocessed_dataset[Len(preprocessed_dataset)] =
                  OpenRecordOf(SubSeq(input, 1, pos - 2))

\* a finalized record whose compound-span line was elided and whose head, 2,
\* is past its only word
C15_Witness ==
    /\ pos = 5 /\ IsBlankLine(input[4])
    /\ input[2] = L_comp /\ input[3] = L_tok
    /\ preprocessed_dataset # <<>>
    /\ preprocessed_dataset[1].words = <<W_Hola>>
    /\ preprocessed_dataset[1].heads = <<2>>
    /\ preprocessed_dataset[1].heads[1] > Len(preprocessed_dataset[1].words)

\* C16: an ignored line changes neither the open-record slot, the output
\* nor the filtered count, and the loop goes on: a comment line with the
\* text tag, and a line that is not a line terminator alone and starts with
\* neither '#' nor a digit (a whitespace-only line is no sentence boundary).
C16_IgnoredLinesChangeNothing ==
    [][ (AtLine /\ (IsTextLine(input[pos]) \/ IsOtherLine(input[pos]))) =>
            /\ UNCHANGED <<ex, preprocessed_dataset, filtered_examples, exc,
                           outfile, stdout>>
            /\ pc' = "loop" /\ pos' = pos + 1 ]_vars

\* a text line and a whitespace-only line went by inside a sentence, and
\* the record is still open with its word
C16_Witness ==
    /\ pc = "loop" /\ pos = 5
    /\ input[1] = L_id1 /\ input[2] = L_text /\ input[3] = L_tok
    /\ input[4] = L_other
    /\ ex # None
    /\ ex[1].words = <<W_Hola>>
    /\ preprocessed_dataset = <<>>

\* the processed blank lines that found a record open
FinalizingBlanks ==
    {k \in 1..(pos - 1) :
         IsBlankLine(input[k]) /\ OpenAfter(SubSeq(input, 1, k - 1))}

\* the processed comment lines without the text tag
SentIdLines == {k \in 1..(pos - 1) : IsSentIdLine(input[k])}

\* C17: the length of the output plus the filtered count is the number of
\* blank lines processed while a record was open, and at most the number of
\* non-text comment lines processed; each of these blank lines counts its
\* record once, in the output or in the filtered count.
C17_Accounting ==
    /\ Len(preprocessed_dataset) + filtered_examples = Cardinality(FinalizingBlanks)
    /\ Cardinality(FinalizingBlanks) <= Cardinality(SentIdLines)
    /\ filtered_examples =
           Cardinality({k \in FinalizingBlanks :
                            AnyIdeographic(OpenRecordOf(SubSeq(input, 1, k - 1)).words)})

\* one record accepted and one filtered, by two blank lines
C17_Witness ==
    /\ Len(preprocessed_dataset) = 1
    /\ filtered_examples = 1
    /\ Cardinality(FinalizingBlanks) = 2
    /\ pos = 6

\* C18: with a record open, a 10-field non-compound token line whose head
\* is not an integer aborts the run after the word and the relation were
\* appended and before a head is; the record, one head short, is never
\* appended to the output and nothing is written.
C18_BadHeadAbortsHalfway ==
    /\ [][ (/\ AtLine /\ IsTokenLine(input[pos]) /\ ex # None
            /\ Len(Fields(input[pos])) = 10
            /\ ~IsCompoundField(Fields(input[pos])[1])
            /\ ~IsIntLiteral(Fields(input[pos])[7])) =>
               /\ pc' = "error" /\ exc' = "ValueError"
               /\ ex' = <<[ex[1] EXCEPT
                              !.words = Append(@, Fields(input[pos])[2]),
                              !.relns = Append(@, Fields(input[pos])[8])]>>
               /\ UNCHANGED <<pos, preprocessed_dataset, filtered_examples,
                              outfile, stdout>> ]_vars
    /\ [][ pc = "error" =>
               UNCHANGED <<ex, preprocessed_dataset, outfile, pc>> ]_vars
    /\ [](pc = "error" =>
              /\ outfile = <<>>
              /\ \A i \in DOMAIN preprocessed_dataset :
                     Aligned(preprocessed_dataset[i]))

\* the run stopped on a token line with head "_" after an accepted record:
\* the open record has one word, one relation and no head
C18_Witness ==
    /\ pc = "error" /\ exc = "ValueError"
    /\ input[pos] = L_badhead
    /\ ex # None
    /\ Len(ex[1].words) = 1 /\ Len(ex[1].relns) = 1 /\ Len(ex[1].heads) = 0
    /\ preprocessed_dataset # <<>>
    /\ outfile = <<>>

=============================================================================
